---- MODULE Spec2Model ----
(***************************************************************************)
(* Reliable file transfer over UDP (entrega2_UDP): the packet codec, the   *)
(* stop-and-wait primitives send_with_ack / receive_with_ack of both       *)
(* endpoints, the rendezvous dispatcher (server main), the per-session     *)
(* worker (handle_client) and the requester (client convert_file).         *)
(***************************************************************************)
EXTENDS Integers, Sequences, FiniteSets, TLC

VARIABLES
    u,               \* harness of one call of a primitive; the ordered channel in SpecChan
    net,             \* datagrams handed to the network (UDP: lost, repeated, reordered)
    cl,              \* the requester: position and locals of convert_file
    client_counter,  \* the server's process-wide session counter
    wk               \* the workers: position and locals of each handle_client thread

vars == <<u, net, cl, client_counter, wk>>

(***************************************************************************)
(* Program constants                                                       *)
(***************************************************************************)
CHUNK_SIZE == 1024
HEADER_SIZE == 9
MAX_RETRIES == 5
SERVER_PORT == 5051

PKT_COMMAND == 1
PKT_METADATA == 2
PKT_DATA == 3
PKT_HASH == 4
PKT_ACK == 5
PKT_NACK == 6
PKT_OK == 7
PKT_ERROR == 8
PKT_COMPLETE == 9

\* Python's None in a slot that otherwise holds an unsigned integer
None == -1

SUPPORTED == {<<"txt", "pdf">>, <<"jpeg", "png">>, <<"jpg", "png">>}

(***************************************************************************)
(* Bounds of the model                                                     *)
(***************************************************************************)
\* fragment size used by the sessions of the model (CHUNK_SIZE scaled down)
FragSize == 2
\* longest file the requester uploads, in bytes
MaxLen == 3
\* sessions the dispatcher admits (cap on client_counter)
MaxWorkers == 2
\* largest sequence id of the datagrams offered to a single primitive call
MaxId == 1

(***************************************************************************)
(* Payloads.  A payload is a record of text fields (the decoded string,    *)
(* split at its separators) and raw bytes.                                 *)
(***************************************************************************)
NoData == [text |-> <<>>, bytes |-> <<>>]

Txt(fields) == [text |-> fields, bytes |-> <<>>]

Raw(b) == [text |-> <<>>, bytes |-> b]

\* struct.pack("!H", port): two bytes, big-endian
pack_H(port) == <<port \div 256, port % 256>>

\* struct.unpack("!H", data[:2])[0]
unpack_H(b) == b[1] * 256 + b[2]

\* b"OK"
OK_TEXT == <<79, 75>>

\* hashlib.sha256(data).hexdigest(): lower-case hex text; injective in the data
calculate_sha256(data) == [text |-> <<"sha256">>, bytes |-> data]

(***************************************************************************)
(* Packet codec                                                            *)
(***************************************************************************)
\* struct.pack("!BII", ...) raises struct.error when a field is None
PackError(pkt_type, packet_id, total_packets) ==
    pkt_type = None \/ packet_id = None \/ total_packets = None

create_packet(pkt_type, packet_id, total_packets, data) ==
    [hdr |-> HEADER_SIZE, type |-> pkt_type, id |-> packet_id,
     total |-> total_packets, text |-> data.text, bytes |-> data.bytes]

\* a datagram of fewer than HEADER_SIZE bytes (hdr = bytes of header present)
ShortDatagram(n) ==
    [hdr |-> n, type |-> None, id |-> None, total |-> None,
     text |-> <<>>, bytes |-> <<>>]

NoneTuple == [type |-> None, id |-> None, total |-> None, data |-> NoData]

parse_packet(packet) ==
    IF packet.hdr < HEADER_SIZE
    THEN NoneTuple
    ELSE [type |-> packet.type, id |-> packet.id, total |-> packet.total,
          data |-> [text |-> packet.text, bytes |-> packet.bytes]]

\* a datagram handed to the network by sendto.  Over the unordered network
\* two transmissions of the same bytes are one element of net; over the
\* ordered channel (u.op = "chan") each transmission is a datagram of its
\* own, told apart by the number n of datagrams sent before it
Dgram(src, dst, pkt) ==
    [src |-> src, dst |-> dst, pkt |-> pkt,
     n |-> IF u.op = "chan" THEN Cardinality(net) ELSE 0]

\* the positions of queue q before j that hold a datagram for the socket
\* of q[j]
Earlier(q, j) == {k \in 1..(j - 1) : q[k].dst = q[j].dst}

\* recvfrom returns d: over the unordered network any datagram addressed to
\* the socket, over the ordered channel the oldest one still in flight
Receivable(d) ==
    u.op = "chan" => \E j \in 1..Len(u.q) : u.q[j] = d /\ Earlier(u.q, j) = {}

(***************************************************************************)
(* send_with_ack.  s = [pc, attempt, tx, result, expected]: pc is "send"   *)
(* before sock.sendto of the attempt, "wait" inside the inner while loop   *)
(* and "ret" after the return; tx counts the calls of sock.sendto.         *)
(***************************************************************************)
SwaStart(expected_ack_id, max_retries) ==
    [pc |-> IF max_retries > 0 THEN "send" ELSE "ret",
     attempt |-> 0, tx |-> 0,
     result |-> IF max_retries > 0 THEN "none" ELSE "False",
     expected |-> expected_ack_id]

SwaIdle == [pc |-> "ret", attempt |-> 0, tx |-> 0, result |-> "none", expected |-> 0]

swa_sendto(s) == [s EXCEPT !.pc = "wait", !.tx = s.tx + 1]

\* mutation: the for loop runs one attempt too many
swa_timeout_OneMore(s, max_retries) ==
    IF s.attempt < max_retries
    THEN [s EXCEPT !.pc = "send", !.attempt = s.attempt + 1]
    ELSE [s EXCEPT !.pc = "ret", !.attempt = s.attempt + 1, !.result = "False"]

\* socket.timeout in the inner loop: break, next attempt of the for loop
swa_timeout(s, max_retries) ==
    IF s.attempt + 1 < max_retries
    THEN [s EXCEPT !.pc = "send", !.attempt = s.attempt + 1]
    ELSE [s EXCEPT !.pc = "ret", !.attempt = s.attempt + 1, !.result = "False"]

\* mutation: any Ack is taken, whatever its sequence id
AckMatches_AnyId(p, expected_ack_id) == p.type = PKT_ACK

AckMatches(p, expected_ack_id) == p.type = PKT_ACK /\ p.id = expected_ack_id

client_send_with_ack_recv(s, response) ==
    LET p == parse_packet(response) IN
    IF AckMatches(p, s.expected) THEN [s EXCEPT !.pc = "ret", !.result = "True"]
    ELSE IF p.type = PKT_ERROR THEN [s EXCEPT !.pc = "ret", !.result = "False"]
    ELSE s

server_send_with_ack_recv(s, response) ==
    LET p == parse_packet(response) IN
    IF AckMatches(p, s.expected) THEN [s EXCEPT !.pc = "ret", !.result = "True"]
    ELSE s

send_with_ack_recv(copy, s, response) ==
    IF copy = "client" THEN client_send_with_ack_recv(s, response)
    ELSE server_send_with_ack_recv(s, response)

(***************************************************************************)
(* receive_with_ack.  The result is [ret, sent, raised]: the tuple handed  *)
(* to the caller, the datagrams sent (destination and packet) and whether  *)
(* an exception other than socket.timeout left the function.               *)
(***************************************************************************)
\* mutation: the Ack carries sequence id 0 instead of the received id
AckOf_Zero(packet_id) == create_packet(PKT_ACK, 0, 0, NoData)

AckOf(packet_id) == create_packet(PKT_ACK, packet_id, 0, NoData)

\* `if packet is None`: packet is the datagram recvfrom returned, never None
PacketIsNone(packet) == FALSE

client_receive_with_ack(packet, addr) ==
    LET p == parse_packet(packet) IN
    IF PacketIsNone(packet)
    THEN [ret |-> NoneTuple, sent |-> <<>>, raised |-> FALSE]
    ELSE IF PackError(PKT_ACK, p.id, 0)
    THEN [ret |-> NoneTuple, sent |-> <<>>, raised |-> TRUE]
    ELSE [ret |-> p, sent |-> <<[dst |-> addr, pkt |-> AckOf(p.id)]>>,
          raised |-> FALSE]

server_receive_with_ack(packet, addr, expected_type) ==
    LET p == parse_packet(packet) IN
    IF PacketIsNone(packet)
    THEN [ret |-> NoneTuple, sent |-> <<>>, raised |-> FALSE]
    ELSE IF expected_type # None /\ p.type # expected_type
    THEN [ret |-> p, sent |-> <<>>, raised |-> FALSE]
    ELSE IF PackError(PKT_ACK, p.id, 0)
    THEN [ret |-> NoneTuple, sent |-> <<>>, raised |-> TRUE]
    ELSE [ret |-> p, sent |-> <<[dst |-> addr, pkt |-> AckOf(p.id)]>>,
          raised |-> FALSE]

\* the callers of the server's receive_with_ack never pass expected_type
ExpectedTypeArg == None

receive_with_ack(copy, packet, addr) ==
    IF copy = "client" THEN client_receive_with_ack(packet, addr)
    ELSE server_receive_with_ack(packet, addr, ExpectedTypeArg)

\* except socket.timeout: return None, None, None, None
receive_with_ack_timeout == [ret |-> NoneTuple, sent |-> <<>>, raised |-> FALSE]

(***************************************************************************)
(* Text of numbers: str(n) and int(s) for the sizes and counts of the      *)
(* metadata line                                                           *)
(***************************************************************************)
NumStr == <<"0", "1", "2", "3", "4", "5", "6", "7", "8", "9">>

str(n) == NumStr[n + 1]

IsNumeric(t) == \E n \in 0..(Len(NumStr) - 1) : NumStr[n + 1] = t

\* int(s); raises ValueError (see IsNumeric) on any other text
int(t) == CHOOSE n \in 0..(Len(NumStr) - 1) : NumStr[n + 1] = t

\* s.lstrip(".") on the format tags of the model
lstrip_dot(t) ==
    CASE t = ".txt" -> "txt"
      [] t = ".pdf" -> "pdf"
      [] t = ".TXT" -> "TXT"
      [] t = ".PDF" -> "PDF"
      [] OTHER -> t

\* command.startswith("CONVERT") on the first word of the stripped command
startswith_CONVERT(fields) ==
    fields # <<>> /\ fields[1] \in {"CONVERT", "CONVERTX"}

Min(a, b) == IF a < b THEN a ELSE b

(***************************************************************************)
(* Send path, shared by convert_file (client) and handle_client (server):  *)
(* Metadata, then Data 0..total-1, then Hash, each through send_with_ack.  *)
(***************************************************************************)
\* mutation: the count is rounded down
TotalPacketsOf_Floor(size, chunk) == size \div chunk

\* (len(data) + CHUNK_SIZE - 1) // CHUNK_SIZE
TotalPacketsOf(size, chunk) == (size + chunk - 1) \div chunk

\* the count with the model's fragment size
TotalPackets(size) == TotalPacketsOf(size, FragSize)

\* start = i * CHUNK_SIZE
ChunkStart(i, chunk) == i * chunk

\* end = min(start + CHUNK_SIZE, size)
ChunkEnd(start, size, chunk) == Min(start + chunk, size)

\* mutation: the slice runs one byte into the next fragment
ChunkOf_Overlap(data, i, chunk) ==
    SubSeq(data, ChunkStart(i, chunk) + 1,
           Min(ChunkEnd(ChunkStart(i, chunk), Len(data), chunk) + 1, Len(data)))

\* data[start:end]
ChunkOf(data, i, chunk) ==
    SubSeq(data, ChunkStart(i, chunk) + 1,
           ChunkEnd(ChunkStart(i, chunk), Len(data), chunk))

\* the slice with the model's fragment size
Chunk(data, i) == ChunkOf(data, i, FragSize)

\* the packet of the stage and the Ack id send_with_ack is given for it
SendPacket(stage, i, filename, data) ==
    CASE stage = "meta" ->
            create_packet(PKT_METADATA, 0, TotalPackets(Len(data)),
                Txt(<<filename, str(Len(data)), str(TotalPackets(Len(data)))>>))
      [] stage = "data" ->
            create_packet(PKT_DATA, i, TotalPackets(Len(data)), Raw(Chunk(data, i)))
      [] OTHER ->
            create_packet(PKT_HASH, 0, 0, calculate_sha256(data))

\* mutation: a Data fragment waits for the Ack of the fragment after it
ExpectedAck_Next(stage, i) == IF stage = "data" THEN i + 1 ELSE 0

ExpectedAck(stage, i) == IF stage = "data" THEN i ELSE 0

\* mutation: the return value of send_with_ack is not tested
AbortOnFailure_Never(result) == FALSE

\* `if not send_with_ack(...): return`
AbortOnFailure(result) == result # "True"

\* mutation: the fragments are skipped, the hash follows the metadata
NextStage_NoData(stage, i, total) ==
    CASE stage = "meta" -> [stage |-> "hash", i |-> 0]
      [] OTHER -> [stage |-> "sent", i |-> 0]

\* the stage after an acknowledged packet ("sent": the whole transfer is out)
NextStage(stage, i, total) ==
    CASE stage = "meta" -> IF total > 0 THEN [stage |-> "data", i |-> 0]
                           ELSE [stage |-> "hash", i |-> 0]
      [] stage = "data" -> IF i + 1 < total THEN [stage |-> "data", i |-> i + 1]
                           ELSE [stage |-> "hash", i |-> 0]
      [] OTHER -> [stage |-> "sent", i |-> 0]

\* the sender's locals after a step of send_with_ack left it in state s2;
\* the locals of a call that returned are dead and go back to SwaIdle
\* (acked and sendFailed are history: the calls that returned True, and
\* whether one returned False)
AfterSwa(r, s2, total) ==
    IF s2.pc # "ret" THEN [r EXCEPT !.s = s2]
    ELSE LET r1 == [r EXCEPT !.s = SwaIdle,
                       !.acked = IF s2.result = "True" THEN r.acked + 1 ELSE r.acked,
                       !.sendFailed = r.sendFailed \/ s2.result # "True"]
             n == NextStage(r.stage, r.i, total)
         IN IF AbortOnFailure(s2.result) THEN [r1 EXCEPT !.stage = "aborted"]
            ELSE [r1 EXCEPT !.stage = n.stage, !.i = n.i,
                            !.s = IF n.stage = "sent" THEN SwaIdle
                                  ELSE SwaStart(ExpectedAck(n.stage, n.i), MAX_RETRIES)]

(***************************************************************************)
(* Receive path, shared: metadata line, fragment store, reassembly         *)
(***************************************************************************)
\* mutation: a line with more than three fields is taken
MetaFieldsOk_AtLeast3(data) == Len(data.text) >= 3

\* data.decode().split("|") has three fields
MetaFieldsOk(data) == Len(data.text) = 3

\* int(file_size), int(total_data_packets) do not raise
MetaNumbersOk(data) == IsNumeric(data.text[2]) /\ IsNumeric(data.text[3])

\* received_packets[packet_id] = data
Store(received_packets, packet_id, data) ==
    [x \in DOMAIN received_packets \cup {packet_id} |->
        IF x = packet_id THEN data ELSE received_packets[x]]

RECURSIVE Concat(_, _, _)
\* for i in range(total): if i in received_packets: content += received_packets[i]
Concat(received_packets, i, total) ==
    IF i >= total THEN <<>>
    ELSE (IF i \in DOMAIN received_packets THEN received_packets[i] ELSE <<>>)
         \o Concat(received_packets, i + 1, total)

\* file_content[:file_size]
Truncate(content, size) == SubSeq(content, 1, Min(size, Len(content)))

Reassemble(received_packets, total, size) ==
    Truncate(Concat(received_packets, 0, total), size)

\* mutation: the loop takes one fragment more than announced
CollectionDone_OneMore(received_packets, total) ==
    Cardinality(DOMAIN received_packets) > total

\* `while len(received_packets) < total` is false
CollectionDone(received_packets, total) ==
    Cardinality(DOMAIN received_packets) >= total

\* mutation: only a fragment that is new is acknowledged
server_collect_AckNew(received_packets, packet, addr) ==
    LET p == parse_packet(packet) IN
    [received_packets |-> IF p.type = PKT_DATA
                          THEN Store(received_packets, p.id, p.data.bytes)
                          ELSE received_packets,
     sent |-> IF p.type = PKT_DATA /\ p.id \notin DOMAIN received_packets
              THEN <<[dst |-> addr, pkt |-> AckOf(p.id)]>> ELSE <<>>,
     raised |-> FALSE]

\* one pass of the server's fragment loop on a datagram: a Data packet is
\* stored and acknowledged, anything else is dropped without an Ack
server_collect(received_packets, packet, addr) ==
    LET p == parse_packet(packet) IN
    IF p.type = PKT_DATA
    THEN [received_packets |-> Store(received_packets, p.id, p.data.bytes),
          sent |-> <<[dst |-> addr, pkt |-> AckOf(p.id)]>>, raised |-> FALSE]
    ELSE [received_packets |-> received_packets, sent |-> <<>>, raised |-> FALSE]

\* one pass of the client's fragment loop: receive_with_ack, then the store
client_collect(received_packets, packet, addr) ==
    LET out == client_receive_with_ack(packet, addr) IN
    [received_packets |-> IF ~out.raised /\ out.ret.type = PKT_DATA
                          THEN Store(received_packets, out.ret.id, out.ret.data.bytes)
                          ELSE received_packets,
     sent |-> out.sent, raised |-> out.raised]

collect(copy, received_packets, packet, addr) ==
    IF copy = "client" THEN client_collect(received_packets, packet, addr)
    ELSE server_collect(received_packets, packet, addr)

\* mutation: a timeout in the loop asks for a retransmission
collect_timeout_Nack(received_packets, addr) ==
    [received_packets |-> received_packets,
     sent |-> <<[dst |-> addr, pkt |-> create_packet(PKT_NACK, 0, 0, NoData)]>>,
     raised |-> FALSE]

\* socket.timeout in the loop: continue
collect_timeout(received_packets, addr) ==
    [received_packets |-> received_packets, sent |-> <<>>, raised |-> FALSE]

\* mutation: the comparison is skipped
HashMatches_Always(content, received_hash) == TRUE

\* `calculated_hash != received_hash` is false
HashMatches(content, received_hash) == calculate_sha256(content) = received_hash

(***************************************************************************)
(* The conversion collaborator (fpdf / PIL behind convert_file of the      *)
(* server): a black box that returns output bytes or raises.               *)
(***************************************************************************)
ConvertOutput(content, src, dst) == <<0>> \o content

\* mutation: the temporary input file is written from a partial buffer
InputFileBytes_First(file_content) ==
    IF file_content = <<>> THEN <<>> ELSE <<file_content[1]>>

\* with open(input_path, "wb") as f: f.write(file_content)
InputFileBytes(file_content) == file_content

OutputName(original_filename, dst) == "result"

\* the temporary input file temp_<uuid>_<name> of a session
NoFile == [exists |-> FALSE, bytes |-> <<>>]

\* mutation: the temporary file is left in place
RemoveInput_Keep(file) == file

\* finally: if os.path.exists(input_path): os.remove(input_path)
RemoveInput(file) == NoFile

(***************************************************************************)
(* The requester: convert_file of client_udp.py on its own socket          *)
(***************************************************************************)
\* the address of the requester's socket (socket.socket() in main)
CLIENT_ADDR == 40000

BASE_FILENAME == "f.txt"

Payloads == {[j \in 1..n |-> j] : n \in 0..MaxLen}

Formats == {<<"txt", "pdf">>, <<"txt", "exe">>, <<".TXT", ".PDF">>}

\* the command lines of the model: every payload with the supported pair,
\* a one-byte file with the other pairs
CommandLines ==
    {<<f, data>> : f \in {<<"txt", "pdf">>}, data \in Payloads}
    \cup {<<f, <<1>>>> : f \in Formats \ {<<"txt", "pdf">>}}

ClNew(src, dst, file_data) ==
    [pc |-> "start", src |-> lstrip_dot(src), dst |-> lstrip_dot(dst),
     file_data |-> file_data, server_addr |-> SERVER_PORT,
     stage |-> "meta", i |-> 0, s |-> SwaIdle,
     txLog |-> <<>>, acked |-> 0, sendFailed |-> FALSE,
     meta |-> NoneTuple, result_size |-> 0, result_total_packets |-> 0,
     received_packets |-> <<>>, expected_hash |-> NoData,
     saved |-> <<>>, outcome |-> "running"]

ClIdle == [ClNew("txt", "pdf", <<>>) EXCEPT !.pc = "done", !.outcome = "idle"]

ClReturn(r, outcome) == [r EXCEPT !.pc = "done", !.outcome = outcome]

ToClient(d) == d.dst = CLIENT_ADDR

\* sock.sendto(cmd_pkt, server_addr)
ClSendCommand ==
    /\ cl.pc = "start"
    /\ net' = net \cup {Dgram(CLIENT_ADDR, cl.server_addr,
                 create_packet(PKT_COMMAND, 0, 0,
                     Txt(<<"CONVERT", cl.src, cl.dst, BASE_FILENAME>>)))}
    /\ cl' = [cl EXCEPT !.pc = "wait1"]
    /\ UNCHANGED <<client_counter, wk>>

\* first recvfrom: Ok with the new port, or Error
ClWait1Recv ==
    /\ cl.pc = "wait1"
    /\ \E d \in net :
         /\ Receivable(d)
         /\ ToClient(d)
         /\ LET p == parse_packet(d.pkt) IN
            cl' = IF p.type = PKT_ERROR THEN ClReturn(cl, "False")
                  ELSE IF p.type = PKT_OK /\ Len(p.data.bytes) >= 2
                  THEN [cl EXCEPT !.pc = "wait2", !.server_addr = unpack_H(p.data.bytes)]
                  ELSE [cl EXCEPT !.pc = "wait2"]
    /\ UNCHANGED <<net, client_counter, wk>>

ClStartUpload(r) ==
    [r EXCEPT !.pc = "send", !.stage = "meta", !.i = 0,
              !.s = SwaStart(ExpectedAck("meta", 0), MAX_RETRIES)]

\* second recvfrom: anything but an Error lets the upload begin
ClWait2Recv ==
    /\ cl.pc = "wait2"
    /\ \E d \in net :
         /\ Receivable(d)
         /\ ToClient(d)
         /\ cl' = IF parse_packet(d.pkt).type = PKT_ERROR THEN ClReturn(cl, "False")
                  ELSE ClStartUpload(cl)
    /\ UNCHANGED <<net, client_counter, wk>>

\* socket.timeout while waiting for either handshake reply
ClHandshakeTimeout ==
    /\ cl.pc \in {"wait1", "wait2"}
    /\ cl' = ClReturn(cl, "False")
    /\ UNCHANGED <<net, client_counter, wk>>

\* history: the packets handed to send_with_ack, with the expected Ack id
LogTx(r, pkt) ==
    IF r.s.tx = 0
    THEN Append(r.txLog, [type |-> pkt.type, id |-> pkt.id, expected |-> r.s.expected])
    ELSE r.txLog

ClAfterSwa(r, s2) ==
    LET r2 == AfterSwa(r, s2, TotalPackets(Len(r.file_data))) IN
    IF r2.stage = "aborted" THEN ClReturn(r2, "False")
    ELSE IF r2.stage = "sent" THEN [r2 EXCEPT !.pc = "rmeta"]
    ELSE r2

\* send_with_ack: sock.sendto(packet, addr)
ClSendto ==
    /\ cl.pc = "send" /\ cl.s.pc = "send"
    /\ LET pkt == SendPacket(cl.stage, cl.i, BASE_FILENAME, cl.file_data) IN
       /\ net' = net \cup {Dgram(CLIENT_ADDR, cl.server_addr, pkt)}
       /\ cl' = [cl EXCEPT !.s = swa_sendto(cl.s), !.txLog = LogTx(cl, pkt)]
    /\ UNCHANGED <<client_counter, wk>>

\* send_with_ack: recvfrom returns a datagram
ClSendRecv ==
    /\ cl.pc = "send" /\ cl.s.pc = "wait"
    /\ \E d \in net :
         /\ Receivable(d)
         /\ ToClient(d)
         /\ cl' = ClAfterSwa(cl, client_send_with_ack_recv(cl.s, d.pkt))
    /\ UNCHANGED <<net, client_counter, wk>>

\* send_with_ack: socket.timeout
ClSendTimeout ==
    /\ cl.pc = "send" /\ cl.s.pc = "wait"
    /\ cl' = ClAfterSwa(cl, swa_timeout(cl.s, MAX_RETRIES))
    /\ UNCHANGED <<net, client_counter, wk>>

Emit(from, sent) == {Dgram(from, sent[j].dst, sent[j].pkt) : j \in 1..Len(sent)}

\* receive_with_ack(timeout=30.0) for the result's metadata
ClRecvMeta ==
    /\ cl.pc = "rmeta"
    /\ \E d \in net :
         /\ Receivable(d)
         /\ ToClient(d)
         /\ LET out == client_receive_with_ack(d.pkt, d.src)
                p == out.ret
                r == [cl EXCEPT !.meta = p]
            IN /\ net' = net \cup Emit(CLIENT_ADDR, out.sent)
               /\ cl' = IF out.raised THEN ClReturn(cl, "raised")
                        ELSE IF p.type = PKT_ERROR THEN ClReturn(r, "False")
                        ELSE IF p.type # PKT_METADATA THEN ClReturn(r, "False")
                        ELSE IF ~MetaFieldsOk(p.data) THEN ClReturn(r, "False")
                        ELSE IF ~MetaNumbersOk(p.data) THEN ClReturn(r, "raised")
                        ELSE [r EXCEPT
                               !.result_size = int(p.data.text[2]),
                               !.result_total_packets = int(p.data.text[3]),
                               !.received_packets = <<>>,
                               !.pc = IF 0 < int(p.data.text[3]) THEN "rdata" ELSE "rhash"]
    /\ UNCHANGED <<client_counter, wk>>

\* while len(received_packets) < result_total_packets: receive_with_ack(...)
ClRecvData ==
    /\ cl.pc = "rdata"
    /\ \E d \in net :
         /\ Receivable(d)
         /\ ToClient(d)
         /\ LET out == client_collect(cl.received_packets, d.pkt, d.src)
                rp == out.received_packets
            IN /\ net' = net \cup Emit(CLIENT_ADDR, out.sent)
               /\ cl' = IF out.raised THEN ClReturn(cl, "raised")
                        ELSE [cl EXCEPT
                               !.received_packets = rp,
                               !.pc = IF CollectionDone(rp, cl.result_total_packets)
                                      THEN "rhash" ELSE "rdata"]
    /\ UNCHANGED <<client_counter, wk>>

\* socket.timeout inside the loop: pkt_type is None, continue
ClRecvDataTimeout ==
    /\ cl.pc = "rdata"
    /\ LET out == collect_timeout(cl.received_packets, cl.server_addr) IN
       /\ net' = net \cup Emit(CLIENT_ADDR, out.sent)
       /\ cl' = [cl EXCEPT !.received_packets = out.received_packets]
    /\ UNCHANGED <<client_counter, wk>>

\* receive_with_ack(timeout=10.0) for the result's hash, then the comparison
ClRecvHash ==
    /\ cl.pc = "rhash"
    /\ \E d \in net :
         /\ Receivable(d)
         /\ ToClient(d)
         /\ LET out == client_receive_with_ack(d.pkt, d.src)
                p == out.ret
                content == Reassemble(cl.received_packets, cl.result_total_packets,
                                      cl.result_size)
                r == [cl EXCEPT !.expected_hash = p.data]
            IN /\ net' = net \cup Emit(CLIENT_ADDR, out.sent)
               /\ cl' = IF out.raised THEN ClReturn(cl, "raised")
                        ELSE IF p.type # PKT_HASH THEN ClReturn(cl, "False")
                        ELSE IF ~HashMatches(content, p.data) THEN ClReturn(r, "False")
                        ELSE [r EXCEPT !.pc = "cwait"]
    /\ UNCHANGED <<client_counter, wk>>

\* socket.timeout in receive_with_ack for the metadata or the hash: the
\* returned kind is None, which is not the expected kind
ClRecvTimeout ==
    /\ cl.pc \in {"rmeta", "rhash"}
    /\ cl' = ClReturn(cl, "False")
    /\ UNCHANGED <<net, client_counter, wk>>

\* optional wait for Complete (a datagram or socket.timeout), then the
\* output file is written and convert_file returns True
ClSave ==
    /\ cl.pc = "cwait"
    /\ cl' = ClReturn([cl EXCEPT !.saved = Reassemble(cl.received_packets,
                           cl.result_total_packets, cl.result_size)], "True")
    /\ UNCHANGED <<net, client_counter, wk>>

(***************************************************************************)
(* One call of a primitive, fed by an arbitrary peer: any datagram may     *)
(* arrive at the socket, from any address, or the receive may time out.    *)
(***************************************************************************)
UnitAddrs == {SERVER_PORT, SERVER_PORT + 1}

UnitDatagrams ==
    {ShortDatagram(n) : n \in {0, HEADER_SIZE - 1}}
    \cup {create_packet(t, i, 0, NoData) : t \in PKT_COMMAND..PKT_COMPLETE, i \in 0..MaxId}

UStart(op, copy, expected_ack_id, max_retries) ==
    [op |-> op, copy |-> copy, max_retries |-> max_retries,
     s |-> IF op = "send_with_ack" THEN SwaStart(expected_ack_id, max_retries)
           ELSE SwaIdle,
     rpc |-> IF op = "receive_with_ack" THEN "recvfrom" ELSE "idle",
     timeouts |-> 0, gotAck |-> FALSE, gotErr |-> FALSE,
     ev |-> "none", rx |-> ShortDatagram(0), rxaddr |-> SERVER_PORT,
     out |-> receive_with_ack_timeout]

UIdle == UStart("none", "client", 0, MAX_RETRIES)

UInit ==
    u \in {UStart("send_with_ack", copy, e, m) :
              copy \in {"client", "server"}, e \in 0..MaxId, m \in 1..MAX_RETRIES}
          \cup {UStart("receive_with_ack", copy, 0, MAX_RETRIES) :
              copy \in {"client", "server"}}

\* sock.sendto(packet, addr) of the current attempt
USendto ==
    /\ u.op = "send_with_ack" /\ u.s.pc = "send"
    /\ u' = [u EXCEPT !.s = swa_sendto(u.s), !.ev = "sendto"]

\* sock.recvfrom returns a datagram inside the wait loop
UWaitRecv ==
    /\ u.op = "send_with_ack" /\ u.s.pc = "wait"
    /\ \E d \in UnitDatagrams :
         LET p == parse_packet(d) IN
         u' = [u EXCEPT !.s = send_with_ack_recv(u.copy, u.s, d),
                        !.ev = "recv", !.rx = d,
                        !.gotAck = u.gotAck \/ (p.type = PKT_ACK /\ p.id = u.s.expected),
                        !.gotErr = u.gotErr \/ p.type = PKT_ERROR]

\* sock.recvfrom raises socket.timeout inside the wait loop
UWaitTimeout ==
    /\ u.op = "send_with_ack" /\ u.s.pc = "wait"
    /\ u' = [u EXCEPT !.s = swa_timeout(u.s, u.max_retries), !.ev = "timeout",
                      !.timeouts = u.timeouts + 1]

\* receive_with_ack: recvfrom returns a datagram
URwaRecv ==
    /\ u.op = "receive_with_ack" /\ u.rpc = "recvfrom"
    /\ \E d \in UnitDatagrams, a \in UnitAddrs :
         u' = [u EXCEPT !.rpc = "ret", !.ev = "recv", !.rx = d, !.rxaddr = a,
                        !.out = receive_with_ack(u.copy, d, a)]

\* receive_with_ack: recvfrom raises socket.timeout
URwaTimeout ==
    /\ u.op = "receive_with_ack" /\ u.rpc = "recvfrom"
    /\ u' = [u EXCEPT !.rpc = "ret", !.ev = "timeout", !.out = receive_with_ack_timeout]

(***************************************************************************)
(* The server: main (rendezvous dispatcher) and handle_client (one worker  *)
(* thread per admitted datagram, on its own socket)                        *)
(***************************************************************************)
\* mutation: every session gets the same port
EphemeralPort_Shared(id) == 50001

\* client_sock.bind(("0.0.0.0", 0)): a fresh ephemeral port per session
EphemeralPort(id) == 50000 + id

WkNew(port, packet, addr) ==
    [pc |-> "init", sock |-> port, client_addr |-> addr, initial_packet |-> packet,
     src |-> "", dst |-> "", meta |-> NoneTuple,
     file_size |-> 0, total_data_packets |-> 0,
     received_packets |-> <<>>, received_hash |-> NoData,
     file_content |-> <<>>, input_file |-> NoFile, result_data |-> <<>>,
     stage |-> "meta", i |-> 0, s |-> SwaIdle,
     txLog |-> <<>>, acked |-> 0, sendFailed |-> FALSE,
     convIn |-> <<>>, outcome |-> "running"]

\* mutation: a worker that ends starts over at the metadata
WkReturn_Restart(r, outcome) == [r EXCEPT !.pc = "rmeta", !.outcome = outcome]

\* no path of handle_client or main calls close() on a session socket: it
\* stays open while its worker runs and, after that, for as long as main's
\* variable client_sock still refers to it (until the next admission)
SocketOpen(w) == wk[w].pc # "done" \/ w = client_counter

WkReturn(r, outcome) == [r EXCEPT !.pc = "done", !.outcome = outcome]

Workers == 1..client_counter

ErrorPkt(reason) == create_packet(PKT_ERROR, 0, 0, Txt(<<reason>>))

\* mutation: the dispatcher takes the next datagram only when every worker
\* has ended
MainAdmit_Serial ==
    /\ client_counter < MaxWorkers
    /\ \A w \in Workers : wk[w].pc = "done"
    /\ \E d \in net :
         /\ Receivable(d)
         /\ d.dst = SERVER_PORT
         /\ client_counter' = client_counter + 1
         /\ net' = net \cup {Dgram(SERVER_PORT, d.src,
                      create_packet(PKT_OK, 0, 0,
                          Raw(pack_H(EphemeralPort(client_counter + 1)))))}
         /\ wk' = Append(wk, WkNew(EphemeralPort(client_counter + 1), d.pkt, d.src))
    /\ UNCHANGED <<cl>>

\* mutation: the identifier is read without the increment
NextClientId_Reuse(counter) == IF counter = 0 THEN 1 ELSE counter

\* with counter_lock: client_counter += 1; current_id = client_counter
NextClientId(counter) == counter + 1

\* main: recvfrom on the rendezvous socket, counter, new socket, redirect
\* Ok with the new port, thread start
MainAdmit ==
    /\ client_counter < MaxWorkers
    /\ \E d \in net :
         /\ Receivable(d)
         /\ d.dst = SERVER_PORT
         /\ LET current_id == NextClientId(client_counter)
                new_port == EphemeralPort(current_id)
            IN /\ client_counter' = current_id
               /\ net' = net \cup {Dgram(SERVER_PORT, d.src,
                            create_packet(PKT_OK, 0, 0, Raw(pack_H(new_port))))}
               /\ wk' = Append(wk, WkNew(new_port, d.pkt, d.src))
    /\ UNCHANGED <<cl>>

\* the reason token of the Error that rejects the first packet, "" if none
RejectReason(p) ==
    IF p.type # PKT_COMMAND THEN "comando_invalido"
    ELSE IF ~startswith_CONVERT(p.data.text) THEN "comando_invalido"
    ELSE IF Len(p.data.text) # 4 THEN "formato_comando_invalido"
    ELSE IF <<lstrip_dot(p.data.text[2]), lstrip_dot(p.data.text[3])>> \notin SUPPORTED
    THEN "formato_nao_suportado"
    ELSE ""

\* handle_client up to the second Ok: validation of the initial packet
WkInit(w) ==
    /\ wk[w].pc = "init"
    /\ LET r == wk[w]
           p == parse_packet(r.initial_packet)
           reason == RejectReason(p)
           ack == IF p.type = PKT_COMMAND
                  THEN {Dgram(r.sock, r.client_addr, AckOf(p.id))} ELSE {}
       IN IF reason # ""
          THEN /\ net' = net \cup ack \cup {Dgram(r.sock, r.client_addr, ErrorPkt(reason))}
               /\ wk' = [wk EXCEPT ![w] = WkReturn(r, "rejected")]
          ELSE /\ net' = net \cup ack \cup
                     {Dgram(r.sock, r.client_addr,
                            create_packet(PKT_OK, 0, 0, Raw(OK_TEXT)))}
               /\ wk' = [wk EXCEPT ![w] =
                            [r EXCEPT !.pc = "rmeta",
                                      !.src = lstrip_dot(p.data.text[2]),
                                      !.dst = lstrip_dot(p.data.text[3])]]
    /\ UNCHANGED <<cl, client_counter>>

\* receive_with_ack for the metadata (socket timeout 30.0)
WkRecvMeta(w) ==
    /\ wk[w].pc = "rmeta"
    /\ \E d \in net :
         /\ Receivable(d)
         /\ d.dst = wk[w].sock
         /\ LET out == server_receive_with_ack(d.pkt, d.src, ExpectedTypeArg)
                p == out.ret
                r == IF out.raised THEN wk[w] ELSE [wk[w] EXCEPT !.meta = p]
            IN /\ net' = net \cup Emit(r.sock, out.sent)
               /\ wk' = [wk EXCEPT ![w] =
                    IF out.raised THEN WkReturn(r, "raised")
                    ELSE IF p.type # PKT_METADATA THEN WkReturn(r, "protocol")
                    ELSE IF ~MetaFieldsOk(p.data) THEN WkReturn(r, "protocol")
                    ELSE IF ~MetaNumbersOk(p.data) THEN WkReturn(r, "raised")
                    ELSE [r EXCEPT
                           !.file_size = int(p.data.text[2]),
                           !.total_data_packets = int(p.data.text[3]),
                           !.received_packets = <<>>,
                           !.pc = IF 0 < int(p.data.text[3]) THEN "rdata" ELSE "rhash"]]
    /\ UNCHANGED <<cl, client_counter>>

\* the fragment loop: recvfrom, a Data packet is stored and acknowledged,
\* anything else is dropped without an Ack
WkRecvData(w) ==
    /\ wk[w].pc = "rdata"
    /\ \E d \in net :
         /\ Receivable(d)
         /\ d.dst = wk[w].sock
         /\ LET r == wk[w]
                out == server_collect(r.received_packets, d.pkt, d.src)
                rp == out.received_packets
            IN /\ net' = net \cup Emit(r.sock, out.sent)
               /\ wk' = [wk EXCEPT ![w] =
                    [r EXCEPT !.received_packets = rp,
                              !.pc = IF CollectionDone(rp, r.total_data_packets)
                                     THEN "rhash" ELSE "rdata"]]
    /\ UNCHANGED <<cl, client_counter>>

\* mutation: a timeout in the fragment loop ends the session
WkRecvDataTimeout_GiveUp(w) ==
    /\ wk[w].pc = "rdata"
    /\ net' = net \cup {Dgram(wk[w].sock, wk[w].client_addr, ErrorPkt("timeout"))}
    /\ wk' = [wk EXCEPT ![w] = WkReturn(wk[w], "protocol")]
    /\ UNCHANGED <<cl, client_counter>>

\* socket.timeout in the fragment loop: continue
WkRecvDataTimeout(w) ==
    /\ wk[w].pc = "rdata"
    /\ LET out == collect_timeout(wk[w].received_packets, wk[w].client_addr) IN
       /\ net' = net \cup Emit(wk[w].sock, out.sent)
       /\ wk' = [wk EXCEPT ![w].received_packets = out.received_packets]
    /\ UNCHANGED <<cl, client_counter>>

\* receive_with_ack for the hash (socket timeout 10.0), reassembly, comparison
WkRecvHash(w) ==
    /\ wk[w].pc = "rhash"
    /\ \E d \in net :
         /\ Receivable(d)
         /\ d.dst = wk[w].sock
         /\ LET out == server_receive_with_ack(d.pkt, d.src, ExpectedTypeArg)
                p == out.ret
                r == IF ~out.raised /\ p.type = PKT_HASH
                     THEN [wk[w] EXCEPT !.received_hash = p.data] ELSE wk[w]
                content == Reassemble(r.received_packets, r.total_data_packets,
                                      r.file_size)
                bad == ~out.raised /\ p.type = PKT_HASH /\ ~HashMatches(content, p.data)
            IN /\ net' = net \cup Emit(r.sock, out.sent) \cup
                     (IF bad THEN {Dgram(r.sock, r.client_addr, ErrorPkt("hash_invalido"))}
                      ELSE {})
               /\ wk' = [wk EXCEPT ![w] =
                    IF out.raised THEN WkReturn(r, "raised")
                    ELSE IF p.type # PKT_HASH THEN WkReturn(r, "protocol")
                    ELSE IF bad THEN WkReturn(r, "hash_invalido")
                    ELSE [r EXCEPT !.pc = "convert", !.file_content = content]]
    /\ UNCHANGED <<cl, client_counter>>

\* socket.timeout in receive_with_ack for the metadata or the hash
WkRecvTimeout(w) ==
    /\ wk[w].pc \in {"rmeta", "rhash"}
    /\ wk' = [wk EXCEPT ![w] = WkReturn(wk[w], "protocol")]
    /\ UNCHANGED <<net, cl, client_counter>>

\* the temporary input file is written
WkWriteInput(w) ==
    /\ wk[w].pc = "convert"
    /\ wk' = [wk EXCEPT ![w] =
            [wk[w] EXCEPT !.pc = "converting",
                          !.input_file = [exists |-> TRUE,
                                          bytes |-> InputFileBytes(wk[w].file_content)]]]
    /\ UNCHANGED <<net, cl, client_counter>>

\* the collaborator reads the input file and returns; the output file is
\* read and the input file removed
WkConvertOk(w) ==
    /\ wk[w].pc = "converting"
    /\ LET r == wk[w]
           input == r.input_file.bytes
       IN wk' = [wk EXCEPT ![w] =
            [r EXCEPT !.convIn = Append(r.convIn, input),
                      !.result_data = ConvertOutput(input, r.src, r.dst),
                      !.input_file = RemoveInput(r.input_file),
                      !.pc = "send", !.stage = "meta", !.i = 0,
                      !.s = SwaStart(ExpectedAck("meta", 0), MAX_RETRIES)]]
    /\ UNCHANGED <<net, cl, client_counter>>

\* the collaborator raises: Error erro_conversao, the input file is
\* removed, return
WkConvertFails(w) ==
    /\ wk[w].pc = "converting"
    /\ LET r == wk[w] IN
       /\ net' = net \cup {Dgram(r.sock, r.client_addr, ErrorPkt("erro_conversao"))}
       /\ wk' = [wk EXCEPT ![w] =
            WkReturn([r EXCEPT !.convIn = Append(r.convIn, r.input_file.bytes),
                               !.input_file = RemoveInput(r.input_file)],
                     "erro_conversao")]
    /\ UNCHANGED <<cl, client_counter>>

WkResultName(r) == OutputName(BASE_FILENAME, r.dst)

\* the worker's locals after a step of send_with_ack, and what it sends on
\* leaving the send path (the Complete packet after the acknowledged hash)
WkAfterSwa(r, s2) ==
    LET r2 == AfterSwa(r, s2, TotalPackets(Len(r.result_data))) IN
    IF r2.stage = "aborted" THEN WkReturn(r2, "send_failed")
    ELSE IF r2.stage = "sent" THEN WkReturn(r2, "complete")
    ELSE r2

\* mutation: the Complete packet goes out with every step of the send path
WkCompleteSignal_EveryStep(r, r2) ==
    {Dgram(r.sock, r.client_addr,
           create_packet(PKT_COMPLETE, 0, 0, Txt(<<OutputName(BASE_FILENAME, r.dst)>>)))}

WkCompleteSignal(r, r2) ==
    IF r2.outcome = "complete"
    THEN {Dgram(r.sock, r.client_addr,
                create_packet(PKT_COMPLETE, 0, 0, Txt(<<WkResultName(r)>>)))}
    ELSE {}

\* send_with_ack: sock.sendto(packet, addr)
WkSendto(w) ==
    /\ wk[w].pc = "send" /\ wk[w].s.pc = "send"
    /\ LET r == wk[w]
           pkt == SendPacket(r.stage, r.i, WkResultName(r), r.result_data)
       IN /\ net' = net \cup {Dgram(r.sock, r.client_addr, pkt)}
          /\ wk' = [wk EXCEPT ![w] =
                [r EXCEPT !.s = swa_sendto(r.s), !.txLog = LogTx(r, pkt)]]
    /\ UNCHANGED <<cl, client_counter>>

\* send_with_ack: recvfrom returns a datagram
WkSendRecv(w) ==
    /\ wk[w].pc = "send" /\ wk[w].s.pc = "wait"
    /\ \E d \in net :
         /\ Receivable(d)
         /\ d.dst = wk[w].sock
         /\ LET r == wk[w]
                r2 == WkAfterSwa(r, server_send_with_ack_recv(r.s, d.pkt))
            IN /\ wk' = [wk EXCEPT ![w] = r2]
               /\ net' = net \cup WkCompleteSignal(r, r2)
    /\ UNCHANGED <<cl, client_counter>>

\* send_with_ack: socket.timeout
WkSendTimeout(w) ==
    /\ wk[w].pc = "send" /\ wk[w].s.pc = "wait"
    /\ LET r == wk[w]
           r2 == WkAfterSwa(r, swa_timeout(r.s, MAX_RETRIES))
       IN /\ wk' = [wk EXCEPT ![w] = r2]
          /\ net' = net \cup WkCompleteSignal(r, r2)
    /\ UNCHANGED <<cl, client_counter>>

(***************************************************************************)
(* The system: one requester, the dispatcher and its workers, over a       *)
(* network that may lose, repeat and reorder every datagram                *)
(***************************************************************************)
Init ==
    /\ u = UIdle
    /\ net = {}
    /\ \E c \in CommandLines : cl = ClNew(c[1][1], c[1][2], c[2])
    /\ client_counter = 0
    /\ wk = <<>>

Next ==
    \/ ClSendCommand /\ UNCHANGED u
    \/ ClWait1Recv /\ UNCHANGED u
    \/ ClWait2Recv /\ UNCHANGED u
    \/ ClHandshakeTimeout /\ UNCHANGED u
    \/ ClSendto /\ UNCHANGED u
    \/ ClSendRecv /\ UNCHANGED u
    \/ ClSendTimeout /\ UNCHANGED u
    \/ ClRecvMeta /\ UNCHANGED u
    \/ ClRecvData /\ UNCHANGED u
    \/ ClRecvDataTimeout /\ UNCHANGED u
    \/ ClRecvHash /\ UNCHANGED u
    \/ ClRecvTimeout /\ UNCHANGED u
    \/ ClSave /\ UNCHANGED u
    \/ MainAdmit /\ UNCHANGED u
    \/ \E w \in Workers : WkInit(w) /\ UNCHANGED u
    \/ \E w \in Workers : WkRecvMeta(w) /\ UNCHANGED u
    \/ \E w \in Workers : WkRecvData(w) /\ UNCHANGED u
    \/ \E w \in Workers : WkRecvDataTimeout(w) /\ UNCHANGED u
    \/ \E w \in Workers : WkRecvHash(w) /\ UNCHANGED u
    \/ \E w \in Workers : WkRecvTimeout(w) /\ UNCHANGED u
    \/ \E w \in Workers : WkWriteInput(w) /\ UNCHANGED u
    \/ \E w \in Workers : WkConvertOk(w) /\ UNCHANGED u
    \/ \E w \in Workers : WkConvertFails(w) /\ UNCHANGED u
    \/ \E w \in Workers : WkSendto(w) /\ UNCHANGED u
    \/ \E w \in Workers : WkSendRecv(w) /\ UNCHANGED u
    \/ \E w \in Workers : WkSendTimeout(w) /\ UNCHANGED u

Spec == Init /\ [][Next]_vars

e2eVars == <<net, cl, client_counter, wk>>

PrimInit ==
    /\ UInit
    /\ net = {}
    /\ cl = ClIdle
    /\ client_counter = 0
    /\ wk = <<>>

PrimNext ==
    \/ USendto /\ UNCHANGED e2eVars
    \/ UWaitRecv /\ UNCHANGED e2eVars
    \/ UWaitTimeout /\ UNCHANGED e2eVars
    \/ URwaRecv /\ UNCHANGED e2eVars
    \/ URwaTimeout /\ UNCHANGED e2eVars

SpecPrim == PrimInit /\ [][PrimNext]_vars

(***************************************************************************)
(* The receive paths fed by an arbitrary peer: a worker that has accepted  *)
(* its Command, or a requester that has finished its upload, and a network *)
(* that holds every packet a peer may send to it: malformed metadata,      *)
(* fragments in and out of range, right and wrong digests.                 *)
(***************************************************************************)
PeerPayload == [j \in 1..MaxLen |-> j]

PeerTotal == TotalPackets(Len(PeerPayload))

\* hexdigest() text written in upper case by the peer
upper_hex(h) == [h EXCEPT !.text = <<"SHA256">>]

PeerMetadata ==
    {create_packet(PKT_METADATA, 0, PeerTotal, Txt(f)) : f \in
        {<<BASE_FILENAME, str(Len(PeerPayload)), str(PeerTotal)>>,
         <<BASE_FILENAME, "0", "0">>,
         <<BASE_FILENAME, str(Len(PeerPayload))>>,
         <<BASE_FILENAME, str(Len(PeerPayload)), str(PeerTotal), "x">>,
         <<BASE_FILENAME, "x", str(PeerTotal)>>,
         <<BASE_FILENAME, str(Len(PeerPayload)), "x">>}}

PeerData ==
    {create_packet(PKT_DATA, i, PeerTotal, Raw(Chunk(PeerPayload, i))) : i \in 0..(PeerTotal - 1)}
    \cup {create_packet(PKT_DATA, i, PeerTotal, Raw(<<9>>)) : i \in {0, PeerTotal}}

PeerHash ==
    {create_packet(PKT_HASH, 0, 0, h) : h \in
        {calculate_sha256(PeerPayload), upper_hex(calculate_sha256(PeerPayload)),
         calculate_sha256(<<>>), calculate_sha256(<<9>>)}}

PeerPackets ==
    PeerMetadata \cup PeerData \cup PeerHash
    \cup {AckOf(i) : i \in 0..MaxId} \cup {ErrorPkt("erro"), ShortDatagram(0)}

\* a worker after `send OK` of handle_client, before the metadata arrives
WkAccepted ==
    [WkNew(EphemeralPort(1),
           create_packet(PKT_COMMAND, 0, 0, Txt(<<"CONVERT", "txt", "pdf", BASE_FILENAME>>)),
           CLIENT_ADDR)
     EXCEPT !.pc = "rmeta", !.src = "txt", !.dst = "pdf"]

\* a requester after the upload of an empty file, before the result arrives
ClUploaded ==
    [ClNew("txt", "pdf", <<>>)
     EXCEPT !.pc = "rmeta", !.server_addr = EphemeralPort(1), !.stage = "sent",
            !.acked = 2,
            !.txLog = <<[type |-> PKT_METADATA, id |-> 0, expected |-> 0],
                        [type |-> PKT_HASH, id |-> 0, expected |-> 0]>>]

RecvInit ==
    /\ u = UIdle
    /\ \/ /\ client_counter = 1
          /\ wk = <<WkAccepted>>
          /\ cl = ClIdle
          /\ net = {Dgram(CLIENT_ADDR, EphemeralPort(1), p) : p \in PeerPackets}
       \/ /\ client_counter = 0
          /\ wk = <<>>
          /\ cl = ClUploaded
          /\ net = {Dgram(EphemeralPort(1), CLIENT_ADDR, p) : p \in PeerPackets}

RecvNext ==
    \/ ClRecvMeta /\ UNCHANGED u
    \/ ClRecvData /\ UNCHANGED u
    \/ ClRecvDataTimeout /\ UNCHANGED u
    \/ ClRecvHash /\ UNCHANGED u
    \/ ClRecvTimeout /\ UNCHANGED u
    \/ ClSave /\ UNCHANGED u
    \/ \E w \in Workers : WkRecvMeta(w) /\ UNCHANGED u
    \/ \E w \in Workers : WkRecvData(w) /\ UNCHANGED u
    \/ \E w \in Workers : WkRecvDataTimeout(w) /\ UNCHANGED u
    \/ \E w \in Workers : WkRecvHash(w) /\ UNCHANGED u
    \/ \E w \in Workers : WkRecvTimeout(w) /\ UNCHANGED u
    \/ \E w \in Workers : WkWriteInput(w) /\ UNCHANGED u
    \/ \E w \in Workers : WkConvertOk(w) /\ UNCHANGED u
    \/ \E w \in Workers : WkConvertFails(w) /\ UNCHANGED u
    \/ \E w \in Workers : WkSendto(w) /\ UNCHANGED u
    \/ \E w \in Workers : WkSendRecv(w) /\ UNCHANGED u
    \/ \E w \in Workers : WkSendTimeout(w) /\ UNCHANGED u

SpecRecv == RecvInit /\ [][RecvNext]_vars

(***************************************************************************)
(* Several sessions at once: peers have put stray datagrams on the         *)
(* rendezvous port and the packets of a one-fragment upload on every       *)
(* private port; the dispatcher and its workers run.                       *)
(***************************************************************************)
StrayPackets ==
    {ShortDatagram(0), ShortDatagram(HEADER_SIZE - 1),
     create_packet(PKT_COMMAND, 0, 0, Txt(<<"CONVERT", "txt", "pdf", BASE_FILENAME>>)),
     create_packet(PKT_DATA, 0, 1, Raw(<<1>>))}

\* the upload of session w: one fragment, the byte w
SessionPackets(w) ==
    {create_packet(PKT_METADATA, 0, 1, Txt(<<BASE_FILENAME, "1", "1">>)),
     create_packet(PKT_DATA, 0, 1, Raw(<<w>>)),
     create_packet(PKT_HASH, 0, 0, calculate_sha256(<<w>>)),
     AckOf(0)}

MultiInit ==
    /\ u = UIdle
    /\ cl = ClIdle
    /\ client_counter = 0
    /\ wk = <<>>
    /\ net = {Dgram(CLIENT_ADDR, SERVER_PORT, p) : p \in StrayPackets}
             \cup UNION {{Dgram(CLIENT_ADDR, EphemeralPort(w), p) : p \in SessionPackets(w)} :
                            w \in 1..MaxWorkers}

MultiNext ==
    \/ MainAdmit /\ UNCHANGED u
    \/ \E w \in Workers : WkInit(w) /\ UNCHANGED u
    \/ \E w \in Workers : WkRecvMeta(w) /\ UNCHANGED u
    \/ \E w \in Workers : WkRecvData(w) /\ UNCHANGED u
    \/ \E w \in Workers : WkRecvDataTimeout(w) /\ UNCHANGED u
    \/ \E w \in Workers : WkRecvHash(w) /\ UNCHANGED u
    \/ \E w \in Workers : WkRecvTimeout(w) /\ UNCHANGED u
    \/ \E w \in Workers : WkWriteInput(w) /\ UNCHANGED u
    \/ \E w \in Workers : WkConvertOk(w) /\ UNCHANGED u
    \/ \E w \in Workers : WkConvertFails(w) /\ UNCHANGED u
    \/ \E w \in Workers : WkSendto(w) /\ UNCHANGED u
    \/ \E w \in Workers : WkSendRecv(w) /\ UNCHANGED u
    \/ \E w \in Workers : WkSendTimeout(w) /\ UNCHANGED u

SpecMulti == MultiInit /\ [][MultiNext]_vars

(***************************************************************************)
(* One session over an ordered channel.  u.q holds the datagrams in flight *)
(* in the order of their sendto; recvfrom on a socket takes the oldest one *)
(* addressed to it.  The channel repeats and reorders nothing and loses at *)
(* most one datagram of a session (u.lost).  A socket timeout expires only *)
(* when no datagram can be delivered and no thread can run, the 2 s        *)
(* timeout of send_with_ack before the longer ones.                        *)
(***************************************************************************)
ChStart == [op |-> "chan", q |-> <<>>, lost |-> <<>>]

\* a set of datagrams as a sequence, in any order
SeqOf(S) == CHOOSE f \in [1..Cardinality(S) -> S] : {f[j] : j \in DOMAIN f} = S

\* the datagrams one step hands to the network, in the order of the sendto
\* calls: a handler that sends an Ack and something else sends the Ack first
InSendOrder(S) ==
    SeqOf({d \in S : d.pkt.type = PKT_ACK}) \o SeqOf({d \in S : d.pkt.type # PKT_ACK})

\* queue q without its element at position j
Without(q, j) == [k \in 1..(Len(q) - 1) |-> IF k < j THEN q[k] ELSE q[k + 1]]

\* queue q after recvfrom on socket sock took the oldest datagram for it
Taken(q, sock) ==
    LET j == CHOOSE k \in 1..Len(q) : q[k].dst = sock /\ Earlier(q, k) = {}
    IN Without(q, j)

\* a step A that receives nothing: what it sends joins the queue
ChSend(A) ==
    /\ A
    /\ u' = [u EXCEPT !.q = u.q \o InSendOrder(net' \ net)]

\* a step A that starts with recvfrom on socket sock
ChRecv(sock, A) ==
    /\ \E k \in 1..Len(u.q) : u.q[k].dst = sock
    /\ A
    /\ u' = [u EXCEPT !.q = Taken(u.q, sock) \o InSendOrder(net' \ net)]

\* the steps that are not timeouts
ChProgress ==
    \/ ChSend(ClSendCommand)
    \/ ChRecv(CLIENT_ADDR, ClWait1Recv)
    \/ ChRecv(CLIENT_ADDR, ClWait2Recv)
    \/ ChSend(ClSendto)
    \/ ChRecv(CLIENT_ADDR, ClSendRecv)
    \/ ChRecv(CLIENT_ADDR, ClRecvMeta)
    \/ ChRecv(CLIENT_ADDR, ClRecvData)
    \/ ChRecv(CLIENT_ADDR, ClRecvHash)
    \/ ChSend(ClSave)
    \/ ChRecv(SERVER_PORT, MainAdmit)
    \/ \E w \in Workers : ChSend(WkInit(w))
    \/ \E w \in Workers : ChRecv(wk[w].sock, WkRecvMeta(w))
    \/ \E w \in Workers : ChRecv(wk[w].sock, WkRecvData(w))
    \/ \E w \in Workers : ChRecv(wk[w].sock, WkRecvHash(w))
    \/ \E w \in Workers : ChSend(WkWriteInput(w))
    \/ \E w \in Workers : ChSend(WkConvertOk(w))
    \/ \E w \in Workers : ChSend(WkConvertFails(w))
    \/ \E w \in Workers : ChSend(WkSendto(w))
    \/ \E w \in Workers : ChRecv(wk[w].sock, WkSendRecv(w))

\* a timeout step A of send_with_ack (ACK_TIMEOUT, 2 s): nothing can be
\* delivered and no thread can run
ChAckTimeout(A) ==
    /\ ~ENABLED ChProgress
    /\ ChSend(A)

\* a sender waits for an Ack in send_with_ack
AckTimeoutPending ==
    \/ cl.pc = "send" /\ cl.s.pc = "wait"
    \/ \E w \in Workers : wk[w].pc = "send" /\ wk[w].s.pc = "wait"

\* a timeout step A of the receive side (4 s in the fragment loops, 10 s and
\* 30 s for the metadata and the hash): no shorter timeout is pending
ChRecvTimeout(A) ==
    /\ ~ENABLED ChProgress
    /\ ~AckTimeoutPending
    /\ ChSend(A)

\* (the 4 s timeout of the requester's fragment loop never expires here: a
\* worker that lives sends again every 2 s)
ChTimeouts ==
    \/ ChRecvTimeout(ClHandshakeTimeout)
    \/ ChAckTimeout(ClSendTimeout)
    \/ \E w \in Workers : ChAckTimeout(WkSendTimeout(w))
    \/ ChRecvTimeout(ClRecvTimeout)
    \/ \E w \in Workers : ChRecvTimeout(WkRecvDataTimeout(w))
    \/ \E w \in Workers : ChRecvTimeout(WkRecvTimeout(w))

\* the channel loses a datagram in flight, at most one in a session
ChDrop ==
    /\ u.lost = <<>>
    /\ \E j \in 1..Len(u.q) :
         u' = [u EXCEPT !.q = Without(u.q, j), !.lost = <<u.q[j]>>]
    /\ UNCHANGED e2eVars

ChInit ==
    /\ u = ChStart
    /\ net = {}
    /\ \E c \in CommandLines : cl = ClNew(c[1][1], c[1][2], c[2])
    /\ client_counter = 0
    /\ wk = <<>>

ChNext == ChProgress \/ ChTimeouts \/ ChDrop

SpecChan == ChInit /\ [][ChNext]_vars

\* the threads are scheduled fairly: a step that stays possible is taken
SpecChanFair == SpecChan /\ WF_vars(ChProgress)

(***************************************************************************)
(* Fragmentation on its own: a payload is sliced with a fragment size, the *)
(* slices arrive in any order, any number of times, and are reassembled;   *)
(* and the count and the slice lengths for a size with CHUNK_SIZE.         *)
(***************************************************************************)
FragSizes == 1..(FragSize + 1)

ByteCounts == 0..(2 * CHUNK_SIZE + MaxLen) \cup {2500}

FStart(op, copy, P, F, size) ==
    [op |-> op, copy |-> copy, P |-> P, F |-> F, size |-> size, total |-> None,
     received_packets |-> <<>>, dup |-> FALSE, content |-> <<>>, lens |-> <<>>,
     ev |-> "none", rx |-> ShortDatagram(0), before |-> <<>>, sent |-> <<>>,
     pc |-> "count"]

\* what may arrive in the fragment loop: the Data packets of the send loop
\* and packets of other kinds
LoopPackets(P, F, total) ==
    {create_packet(PKT_DATA, i, total, Raw(ChunkOf(P, i, F))) : i \in 0..(total - 1)}
    \cup {create_packet(PKT_HASH, 0, 0, calculate_sha256(P)),
          create_packet(PKT_NACK, 0, 0, NoData)}

FragInit ==
    /\ u \in {FStart("roundtrip", copy, P, F, Len(P)) :
                 copy \in {"client", "server"}, P \in Payloads, F \in FragSizes}
             \cup {FStart("sizes", "client", <<>>, CHUNK_SIZE, n) : n \in ByteCounts}
    /\ net = {}
    /\ cl = ClIdle
    /\ client_counter = 0
    /\ wk = <<>>

\* total_packets = (file_size + CHUNK_SIZE - 1) // CHUNK_SIZE
FragCount ==
    /\ u.pc = "count"
    /\ u' = [u EXCEPT !.total = TotalPacketsOf(u.size, u.F), !.pc = "slice"]

\* the next slice of the send loop: its length
FragSlice ==
    /\ u.op = "sizes" /\ u.pc = "slice" /\ Len(u.lens) < u.total
    /\ LET start == ChunkStart(Len(u.lens), u.F) IN
       u' = [u EXCEPT !.lens = Append(u.lens, ChunkEnd(start, u.size, u.F) - start)]

\* a pass of the fragment loop: a packet arrives (any id, in any order,
\* again and again)
FragDeliver ==
    /\ u.op = "roundtrip" /\ u.pc = "slice"
    /\ ~CollectionDone(u.received_packets, u.total)
    /\ \E p \in LoopPackets(u.P, u.F, u.total) :
         LET out == collect(u.copy, u.received_packets, p, SERVER_PORT) IN
         u' = [u EXCEPT !.received_packets = out.received_packets,
                        !.sent = out.sent, !.ev = "recv", !.rx = p,
                        !.before = u.received_packets,
                        !.dup = u.dup \/ (p.type = PKT_DATA
                                           /\ p.id \in DOMAIN u.received_packets)]

\* a pass of the fragment loop: the receive times out
FragTimeout ==
    /\ u.op = "roundtrip" /\ u.pc = "slice"
    /\ ~CollectionDone(u.received_packets, u.total)
    /\ LET out == collect_timeout(u.received_packets, SERVER_PORT) IN
       u' = [u EXCEPT !.received_packets = out.received_packets,
                      !.sent = out.sent, !.ev = "timeout",
                      !.before = u.received_packets]

\* the loop has its count of fragments: concatenation and truncation
FragReassemble ==
    /\ u.op = "roundtrip" /\ u.pc = "slice"
    /\ CollectionDone(u.received_packets, u.total)
    /\ u' = [u EXCEPT !.content = Reassemble(u.received_packets, u.total, u.size),
                      !.pc = "done"]

FragNext ==
    \/ FragCount /\ UNCHANGED e2eVars
    \/ FragSlice /\ UNCHANGED e2eVars
    \/ FragDeliver /\ UNCHANGED e2eVars
    \/ FragTimeout /\ UNCHANGED e2eVars
    \/ FragReassemble /\ UNCHANGED e2eVars

SpecFrag == FragInit /\ [][FragNext]_vars

(***************************************************************************)
(* Claims about the primitives (checked under SpecPrim)                    *)
(***************************************************************************)
USendReturned == u.op = "send_with_ack" /\ u.s.pc = "ret"

\* C2 as stated: send_with_ack returns True after exactly (timed-out
\* attempts + 1) transmissions, and whenever it returns False it has made
\* exactly max_retries transmissions, never fewer (both copies).
C2_ExactlyMaxRetriesOnFailure ==
    USendReturned =>
        /\ u.s.result = "True" => u.s.tx = u.timeouts + 1 /\ u.timeouts < u.max_retries
        /\ u.s.result = "False" => u.s.tx = u.max_retries

\* C2 amended: send_with_ack never transmits more than max_retries times; it
\* returns True after exactly (timed-out attempts + 1) transmissions; it
\* returns False after exactly max_retries transmissions, all timed out,
\* unless the client copy was ended by an Error packet.
C2_TransmissionCount ==
    /\ u.s.tx <= u.max_retries
    /\ USendReturned =>
        /\ u.s.result = "True" => u.s.tx = u.timeouts + 1 /\ u.timeouts < u.max_retries
        /\ (u.s.result = "False" /\ ~(u.copy = "client" /\ u.gotErr)) =>
               u.s.tx = u.max_retries /\ u.timeouts = u.max_retries

C2_Witness ==
    /\ USendReturned /\ u.copy = "server" /\ u.max_retries = MAX_RETRIES
    /\ u.s.result = "True" /\ u.timeouts = 2 /\ u.s.tx = 3

UIgnorable(d, expected_ack_id) ==
    LET p == parse_packet(d) IN
    /\ p.type # PKT_ERROR
    /\ ~(p.type = PKT_ACK /\ p.id = expected_ack_id)

\* C3: send_with_ack returns True only if it received an Ack with the expected
\* id during the call; a packet that is neither that Ack nor an Error leaves
\* the wait, the attempt, the transmission count and the result as they were.
C3_OnlyOwnAck ==
    /\ [](USendReturned /\ u.s.result = "True" => u.gotAck)
    /\ [][(u.op = "send_with_ack" /\ u.s.pc = "wait" /\ u'.ev = "recv"
           /\ UIgnorable(u'.rx, u.s.expected)) => u'.s = u.s]_vars

C3_Witness ==
    /\ u.op = "send_with_ack" /\ u.s.pc = "wait" /\ u.ev = "recv"
    /\ u.rx.type = PKT_ACK /\ u.rx.id # u.s.expected

\* C4: an Error packet received while waiting for the Ack ends send_with_ack
\* at once with False, on the client copy and on the server copy.
C4_ErrorFailsImmediately ==
    (u.op = "send_with_ack" /\ u.ev = "recv" /\ parse_packet(u.rx).type = PKT_ERROR)
        => (u.s.pc = "ret" /\ u.s.result = "False")

URecvReturned == u.op = "receive_with_ack" /\ u.rpc = "ret"

\* C7: receive_with_ack answers every well-formed packet, whatever its kind,
\* with exactly one Ack of the packet's sequence id, sent to the address the
\* packet came from, and returns the packet.
C7_AckUnconditional ==
    (URecvReturned /\ u.ev = "recv" /\ u.rx.hdr >= HEADER_SIZE) =>
        /\ u.out.sent = <<[dst |-> u.rxaddr,
                           pkt |-> create_packet(PKT_ACK, u.rx.id, 0, NoData)]>>
        /\ u.out.ret = parse_packet(u.rx)
        /\ ~u.out.raised

C7_Witness ==
    /\ URecvReturned /\ u.ev = "recv" /\ u.copy = "server"
    /\ u.rx.type = PKT_NACK /\ u.rx.id = 1 /\ u.rxaddr = SERVER_PORT + 1
    /\ Len(u.out.sent) = 1

\* C8: on a datagram shorter than the header, or on a timeout,
\* receive_with_ack returns "no packet", sends no Ack and does not raise.
C8_ShortOrTimeoutYieldsNothing ==
    (URecvReturned /\ (u.ev = "timeout" \/ u.rx.hdr < HEADER_SIZE)) =>
        u.out = [ret |-> NoneTuple, sent |-> <<>>, raised |-> FALSE]

(***************************************************************************)
(* Claims about a session (checked under Spec)                             *)
(***************************************************************************)
\* C1: whenever a worker hands bytes to the conversion collaborator, they are
\* exactly the payload the requester fragmented, whatever the network lost,
\* repeated or reordered.
C1_UploadIntegrity ==
    \A w \in Workers : \A j \in 1..Len(wk[w].convIn) : wk[w].convIn[j] = cl.file_data

C1_Witness ==
    \E w \in Workers :
        /\ wk[w].convIn = <<cl.file_data>>
        /\ Len(cl.file_data) = MaxLen
        /\ client_counter = MaxWorkers

\* the packets of a transfer in the order of the send path:
\* Metadata (Ack 0), Data 0..total-1 (Ack i), Hash (Ack 0)
SendPlan(total) ==
    <<[type |-> PKT_METADATA, id |-> 0, expected |-> 0]>>
    \o [j \in 1..total |-> [type |-> PKT_DATA, id |-> j - 1, expected |-> j - 1]]
    \o <<[type |-> PKT_HASH, id |-> 0, expected |-> 0]>>

IsPrefix(a, b) == Len(a) <= Len(b) /\ a = SubSeq(b, 1, Len(a))

\* C5: a sender (the requester uploading, a worker sending the result) starts
\* packet n+1 only after send_with_ack returned True for packet n: at most
\* one packet handed to send_with_ack is without a successful return.
C5_StopAndWait ==
    /\ Len(cl.txLog) <= cl.acked + 1
    /\ \A w \in Workers : Len(wk[w].txLog) <= wk[w].acked + 1

C5_Witness ==
    /\ Len(cl.txLog) = 3 /\ cl.acked = 3
    /\ \E w \in Workers : Len(wk[w].txLog) = 3 /\ wk[w].acked = 2 /\ wk[w].s.tx = 2

TransferKinds == {PKT_METADATA, PKT_DATA, PKT_HASH, PKT_COMPLETE}

SentBy(addr) == {d \in net : d.src = addr /\ d.pkt.type \in TransferKinds}

\* C6: the packets a sender hands to send_with_ack are, in order, a prefix of
\* Metadata, Data 0..fragment_count-1, Hash; once send_with_ack has failed
\* the sender transmits nothing more of the transfer.
C6_SendOrderAndAbort ==
    /\ [](/\ IsPrefix(cl.txLog, SendPlan(TotalPackets(Len(cl.file_data))))
          /\ \A w \in Workers :
                IsPrefix(wk[w].txLog, SendPlan(TotalPackets(Len(wk[w].result_data)))))
    /\ [][/\ cl.sendFailed =>
               /\ cl'.txLog = cl.txLog /\ cl'.s.tx = 0
               /\ SentBy(CLIENT_ADDR)' = SentBy(CLIENT_ADDR)
          /\ \A w \in Workers : wk[w].sendFailed =>
               /\ wk'[w].txLog = wk[w].txLog /\ wk'[w].s.tx = 0
               /\ SentBy(wk[w].sock)' = SentBy(wk[w].sock)]_vars

C6_Witness ==
    /\ cl.sendFailed /\ cl.pc = "done"
    /\ Len(cl.txLog) = 3 /\ cl.txLog[3].type = PKT_DATA /\ cl.txLog[3].id = 1
    /\ \E w \in Workers : wk[w].pc = "rdata"

\* what the server sent to the requester for session w: the dispatcher's
\* redirect and everything from the worker's socket
Replies(w) ==
    {d.pkt : d \in {e \in net :
        /\ e.dst = wk[w].client_addr
        /\ \/ e.src = wk[w].sock
           \/ e.src = SERVER_PORT /\ e.pkt.bytes = pack_H(wk[w].sock)}}

\* C9: for a first packet that is not a valid command the server's whole
\* reply is one Error packet with the reason token of the first failed check.
C9_RejectionIsOneError ==
    \A w \in Workers :
        (wk[w].pc = "done" /\ wk[w].outcome = "rejected") =>
            Replies(w) = {ErrorPkt(RejectReason(parse_packet(wk[w].initial_packet)))}

\* C10: a private endpoint is allocated only for a Command that passed
\* validation.
C10_EndpointOnlyForValidCommand ==
    \A w \in Workers : RejectReason(parse_packet(wk[w].initial_packet)) = ""

\* str.lower() on the format tags of the model
lower(t) ==
    CASE t = "TXT" -> "txt"
      [] t = "PDF" -> "pdf"
      [] OTHER -> t

\* C11: a Command whose (src, dst) is a supported pair up to letter case and
\* a leading dot is accepted by the responder, and the session's source and
\* target format are stored lower-cased.
C11_FormatsCaseInsensitive ==
    \A w \in Workers :
        LET p == parse_packet(wk[w].initial_packet)
            f == p.data.text
        IN (/\ wk[w].pc # "init"
            /\ p.type = PKT_COMMAND /\ startswith_CONVERT(f) /\ Len(f) = 4
            /\ <<lower(lstrip_dot(f[2])), lower(lstrip_dot(f[3]))>> \in SUPPORTED)
           => /\ wk[w].outcome # "rejected"
              /\ wk[w].src = lower(lstrip_dot(f[2]))
              /\ wk[w].dst = lower(lstrip_dot(f[3]))

\* C12: after the Command, every Metadata, Data, Hash and Ack packet the
\* requester sends is addressed to the private endpoint of its session and
\* never to the rendezvous endpoint, whatever the network loses or reorders.
C12_PrivateEndpointOnly ==
    \A d \in net :
        (d.src = CLIENT_ADDR /\ d.pkt.type \in {PKT_METADATA, PKT_DATA, PKT_HASH, PKT_ACK})
            => /\ d.dst # SERVER_PORT
               /\ \E w \in Workers : d.dst = wk[w].sock

\* the sessions of the requester whose Command the responder rejected
RejectedSessions ==
    {w \in Workers : /\ wk[w].outcome = "rejected"
                     /\ wk[w].client_addr = CLIENT_ADDR
                     /\ parse_packet(wk[w].initial_packet).type = PKT_COMMAND}

\* C13: no data flows before the handshake succeeds: when the responder
\* rejected the requester's Command with an Error packet, the requester has
\* handed no Metadata, Data or Hash packet to the network.
C13_NoDataAfterRejection ==
    RejectedSessions # {} =>
        /\ cl.txLog = <<>>
        /\ \A d \in net : d.src = CLIENT_ADDR =>
               d.pkt.type \notin {PKT_METADATA, PKT_DATA, PKT_HASH}

(***************************************************************************)
(* Claims about the receive paths (checked under SpecRecv, C20 under Spec) *)
(***************************************************************************)
\* a Metadata packet with exactly three fields, numeric size and count
ValidMetadata(p) ==
    /\ p.type = PKT_METADATA
    /\ Len(p.data.text) = 3
    /\ IsNumeric(p.data.text[2]) /\ IsNumeric(p.data.text[3])

\* the receiver is in, or has been through, the fragment collection
WkCollecting(r) ==
    \/ r.pc \in {"rdata", "rhash", "convert", "converting", "send"}
    \/ r.outcome \in {"hash_invalido", "erro_conversao", "send_failed", "complete"}
    \/ r.received_packets # <<>>

ClCollecting(r) ==
    \/ r.pc \in {"rdata", "rhash", "cwait"}
    \/ r.outcome = "True"
    \/ r.received_packets # <<>>

\* C14: a receiver (worker, requester) enters the fragment collection only
\* if the first packet it received for the transfer is a Metadata packet with
\* exactly three fields and numeric size and count; after any other first
\* packet it has ended the session and has stored no fragment.
C14_MetadataFirst ==
    /\ \A w \in Workers :
          /\ WkCollecting(wk[w]) => ValidMetadata(wk[w].meta)
          /\ (wk[w].meta # NoneTuple /\ ~ValidMetadata(wk[w].meta)) =>
                /\ wk[w].pc = "done" /\ wk[w].outcome \in {"protocol", "raised"}
                /\ wk[w].received_packets = <<>>
    /\ ClCollecting(cl) => ValidMetadata(cl.meta)
    /\ (cl.meta # NoneTuple /\ ~ValidMetadata(cl.meta)) =>
          /\ cl.pc = "done" /\ cl.outcome \in {"False", "raised"}
          /\ cl.received_packets = <<>>

C14_Witness ==
    \E w \in Workers :
        /\ wk[w].meta.type = PKT_METADATA /\ Len(wk[w].meta.data.text) = 3
        /\ ~IsNumeric(wk[w].meta.data.text[3])
        /\ wk[w].pc = "done" /\ wk[w].outcome = "raised"

\* the receiver has left the fragment loop
WkCollected(r) ==
    \/ r.pc \in {"rhash", "convert", "converting", "send"}
    \/ r.outcome \in {"hash_invalido", "erro_conversao", "send_failed", "complete"}

ClCollected(r) == r.pc \in {"rhash", "cwait"} \/ r.outcome = "True"

\* C15: a Data packet whose id is outside [0, fragment_count) is not stored
\* and does not count: the stored ids are always within the range, and the
\* collection has ended only with every id of the range stored.
C15_OutOfRangeIgnored ==
    /\ \A w \in Workers :
          /\ DOMAIN wk[w].received_packets \subseteq 0..(wk[w].total_data_packets - 1)
          /\ WkCollected(wk[w]) =>
                DOMAIN wk[w].received_packets = 0..(wk[w].total_data_packets - 1)
    /\ DOMAIN cl.received_packets \subseteq 0..(cl.result_total_packets - 1)
    /\ ClCollected(cl) =>
          DOMAIN cl.received_packets = 0..(cl.result_total_packets - 1)

\* str.lower() on the hex text of a digest
lower_hex(h) == IF h.text = <<"SHA256">> THEN [h EXCEPT !.text = <<"sha256">>] ELSE h

\* the digest of the content differs from the received digest
DigestDiffers(content, h) == lower_hex(h) # calculate_sha256(content)

WkContent(r) == Reassemble(r.received_packets, r.total_data_packets, r.file_size)

ErrorsFrom(r) == {d \in net : d.src = r.sock /\ d.pkt.type = PKT_ERROR}

\* C16: when the digest of the reassembled content differs from the digest a
\* worker received, the worker has sent one Error hash_invalido, has not
\* invoked the conversion, has sent no result packet and has terminated.
C16_DigestMismatchIsFatal ==
    \A w \in Workers :
        (wk[w].received_hash # NoData
         /\ DigestDiffers(WkContent(wk[w]), wk[w].received_hash)) =>
            /\ wk[w].pc = "done" /\ wk[w].outcome = "hash_invalido"
            /\ wk[w].convIn = <<>>
            /\ wk[w].txLog = <<>> /\ SentBy(wk[w].sock) = {}
            /\ ErrorsFrom(wk[w]) =
                   {Dgram(wk[w].sock, wk[w].client_addr, ErrorPkt("hash_invalido"))}

C16_Witness ==
    \E w \in Workers :
        /\ wk[w].outcome = "hash_invalido"
        /\ wk[w].received_hash = calculate_sha256(PeerPayload)
        /\ DOMAIN wk[w].received_packets = 0..(PeerTotal - 1)
        /\ wk[w].received_packets[0] = <<9>>

ClContent(r) == Reassemble(r.received_packets, r.result_total_packets, r.result_size)

\* C17: the digest comparison is case-insensitive: a receiver (worker,
\* requester) that was sent the correct digest of the reassembled content,
\* in lower or upper case, accepts it.
C17_DigestCaseInsensitive ==
    /\ \A w \in Workers :
          (wk[w].received_hash # NoData
           /\ ~DigestDiffers(WkContent(wk[w]), wk[w].received_hash)) =>
              wk[w].outcome # "hash_invalido"
    /\ (cl.expected_hash # NoData /\ ~DigestDiffers(ClContent(cl), cl.expected_hash)) =>
          (cl.pc = "cwait" \/ cl.outcome = "True")

\* C20: every worker of an admitted session that ended without reaching
\* Complete (wrong kind where Metadata or Hash is expected, malformed
\* metadata, digest mismatch, conversion failure, retry exhaustion) has sent
\* exactly one Error packet; none ends silently.
C20_EveryFailureOneError ==
    \A w \in Workers :
        (wk[w].pc = "done" /\ wk[w].outcome \notin {"complete", "rejected"}) =>
            Cardinality(ErrorsFrom(wk[w])) = 1

(***************************************************************************)
(* Claims about fragmentation (checked under SpecFrag)                     *)
(***************************************************************************)
\* C18: a payload sliced as the send path does, its fragments stored by id
\* in any arrival order with duplicates, concatenated in ascending id order
\* and truncated to the payload's length, is the payload again.
C18_RoundTrip ==
    (u.op = "roundtrip" /\ u.pc = "done") => u.content = u.P

C18_Witness ==
    /\ u.op = "roundtrip" /\ u.pc = "done" /\ u.dup
    /\ Len(u.P) = MaxLen /\ u.F = FragSize /\ u.content = u.P

\* the least n with n * chunk >= size
Ceil(size, chunk) == CHOOSE n \in 0..size : n * chunk >= size /\ (n = 0 \/ (n - 1) * chunk < size)

\* C19: the announced fragment count is ceil(total_size / 1024), 0 only for
\* an empty payload; every fragment but the last has 1024 bytes and the last
\* has total_size - 1024 * (fragment_count - 1) bytes, between 1 and 1024;
\* 2500 bytes give fragments of 1024, 1024 and 452 bytes.
C19_CountAndSizes ==
    (u.op = "sizes" /\ u.pc = "slice") =>
        /\ u.total = Ceil(u.size, CHUNK_SIZE)
        /\ u.total = 0 <=> u.size = 0
        /\ \A j \in 1..Len(u.lens) :
              /\ j < u.total => u.lens[j] = CHUNK_SIZE
              /\ j = u.total =>
                    /\ u.lens[j] = u.size - CHUNK_SIZE * (u.total - 1)
                    /\ u.lens[j] >= 1 /\ u.lens[j] <= CHUNK_SIZE
        /\ (u.size = 2500 /\ Len(u.lens) = u.total) => u.lens = <<1024, 1024, 452>>

C19_Witness ==
    u.op = "sizes" /\ u.size = 2500 /\ u.total = 3 /\ u.lens = <<1024, 1024, 452>>

(***************************************************************************)
(* Claims about the phases of a worker (C21 under SpecMulti, C22 under     *)
(* SpecRecv)                                                               *)
(***************************************************************************)
\* the phase of a worker: ADMITTED 0, RECEIVING 1, VERIFYING 2,
\* CONVERTING 3, SENDING 4, COMPLETE or FAILED 5
Phase(r) ==
    CASE r.pc = "init" -> 0
      [] r.pc \in {"rmeta", "rdata"} -> 1
      [] r.pc = "rhash" -> 2
      [] r.pc \in {"convert", "converting"} -> 3
      [] r.pc = "send" -> 4
      [] OTHER -> 5

\* the result packets worker r has put on the network
ResultPackets(r) ==
    {d \in net : d.src = r.sock /\ d.pkt.type \in {PKT_METADATA, PKT_DATA, PKT_HASH}}

\* C21: a worker moves only forward through its phases, a terminated worker
\* stays terminated; the conversion collaborator is invoked at most once and
\* only on content whose digest check passed; no result Metadata, Data or
\* Hash is sent unless the conversion returned successfully.
C21_PhaseOrder ==
    /\ [][\A w \in Workers :
             /\ Phase(wk'[w]) >= Phase(wk[w])
             /\ wk[w].pc = "done" => wk'[w] = wk[w]]_vars
    /\ [](\A w \in Workers :
             /\ Len(wk[w].convIn) <= 1
             /\ wk[w].convIn # <<>> =>
                   /\ Phase(wk[w]) >= 4
                   /\ wk[w].received_hash = calculate_sha256(WkContent(wk[w]))
             /\ (wk[w].txLog # <<>> \/ ResultPackets(wk[w]) # {}) =>
                   /\ Len(wk[w].convIn) = 1
                   /\ wk[w].outcome # "erro_conversao"
                   /\ wk[w].result_data =
                          ConvertOutput(wk[w].convIn[1], wk[w].src, wk[w].dst))

C21_Witness ==
    \E w \in Workers :
        /\ wk[w].outcome = "complete" /\ Len(wk[w].convIn) = 1
        /\ Len(wk[w].txLog) = Len(SendPlan(TotalPackets(Len(wk[w].result_data))))

\* the Complete packets worker r has put on the network
CompleteFrom(r) == {d \in net : d.src = r.sock /\ d.pkt.type = PKT_COMPLETE}

\* C22: a worker sends the Complete packet in the one step that ends it,
\* after the Hash of the result was acknowledged, so once, without a wait and
\* without retransmission; a requester that verified the digest of the
\* result saves the file and returns True whatever arrives or does not.
C22_CompleteIsCourtesy ==
    /\ [](\A w \in Workers : CompleteFrom(wk[w]) # {} =>
             /\ wk[w].pc = "done" /\ wk[w].outcome = "complete"
             /\ wk[w].txLog = SendPlan(TotalPackets(Len(wk[w].result_data)))
             /\ wk[w].acked = Len(wk[w].txLog))
    /\ [][\A w \in Workers : CompleteFrom(wk[w])' # CompleteFrom(wk[w]) =>
             /\ wk[w].pc = "send" /\ wk'[w].pc = "done"
             /\ CompleteFrom(wk[w]) = {}]_vars
    /\ [](cl.pc = "cwait" => ENABLED ClSave)
    /\ [][(cl.pc = "cwait" /\ cl' # cl) =>
             /\ cl'.pc = "done" /\ cl'.outcome = "True"
             /\ cl'.saved = ClContent(cl)]_vars

C22_Witness ==
    /\ cl.outcome = "True" /\ cl.saved = PeerPayload
    /\ \A d \in net : d.pkt.type # PKT_COMPLETE

(***************************************************************************)
(* Claims about the dispatcher and concurrent sessions (checked under      *)
(* SpecMulti)                                                              *)
(***************************************************************************)
\* C23: a datagram shorter than the header that arrives at the rendezvous
\* port is discarded: no worker and no private endpoint exists for it and
\* the server sends nothing in response to it.
C23_ShortDatagramDiscarded ==
    \A w \in Workers :
        /\ wk[w].initial_packet.hdr >= HEADER_SIZE
        /\ Replies(w) # {} => wk[w].initial_packet.hdr >= HEADER_SIZE

\* C24: admission is never blocked by running sessions: whenever a datagram
\* is waiting at the rendezvous port the dispatcher can admit it, whatever
\* the workers are doing (up to MaxWorkers sessions); an admission changes no
\* existing worker, it only allocates the endpoint and adds the new worker.
C24_AdmissionNeverBlocked ==
    /\ []((client_counter < MaxWorkers /\ \E d \in net : d.dst = SERVER_PORT)
              => ENABLED MainAdmit)
    /\ [][client_counter' # client_counter =>
             /\ client_counter' = client_counter + 1
             /\ Len(wk') = Len(wk) + 1
             /\ \A w \in Workers : wk'[w] = wk[w]
             /\ wk'[client_counter'].pc = "init"
             /\ wk'[client_counter'].sock = EphemeralPort(client_counter')]_vars

C24_Witness ==
    \E w \in Workers :
        /\ w < client_counter
        /\ wk[w].pc = "rdata"
        /\ wk[client_counter].pc = "init"
        /\ parse_packet(wk[client_counter].initial_packet).type = PKT_COMMAND

\* the datagrams sent from port p
SentFrom(p) == {d \in net : d.src = p}

\* C25: sessions are isolated: the private endpoints are distinct, a worker
\* holds and converts only the bytes sent to its own endpoint, a step changes
\* at most one worker, leaves every other worker as it was and sends only
\* from the endpoint of the worker that took it.
C25_SessionIsolation ==
    /\ [](\A w \in Workers :
             /\ \A v \in Workers : v # w => wk[v].sock # wk[w].sock
             /\ \A i \in DOMAIN wk[w].received_packets :
                   wk[w].received_packets[i] = <<w>>
             /\ wk[w].received_hash \in {NoData, calculate_sha256(<<w>>)}
             /\ \A j \in 1..Len(wk[w].convIn) : wk[w].convIn[j] = <<w>>)
    /\ [][\A w \in Workers :
             /\ wk'[w] # wk[w] =>
                   /\ \A v \in Workers : v # w => wk'[v] = wk[v]
                   /\ client_counter' = client_counter
             /\ wk'[w] = wk[w] => SentFrom(wk[w].sock)' = SentFrom(wk[w].sock)]_vars

C25_Witness ==
    \E w, v \in Workers :
        /\ wk[w].outcome = "erro_conversao"
        /\ wk[v].outcome = "complete" /\ wk[v].convIn = <<<<v>>>>

\* C26: the private endpoint of a worker that has terminated, by any path,
\* is closed.
C26_EndpointReleased ==
    \A w \in Workers : wk[w].pc = "done" => ~SocketOpen(w)

\* C27: the temporary input file of a session exists only while the
\* conversion step runs: once the collaborator has returned or raised it is
\* gone, and no terminated worker leaves one behind.
C27_TempFileRemoved ==
    \A w \in Workers :
        /\ wk[w].input_file.exists => wk[w].pc = "converting"
        /\ wk[w].pc \in {"send", "done"} => wk[w].input_file = NoFile

C27_Witness ==
    \E w, v \in Workers :
        /\ wk[w].outcome = "erro_conversao" /\ wk[w].convIn # <<>>
        /\ ~wk[w].input_file.exists
        /\ wk[v].pc = "converting" /\ wk[v].input_file.exists

(***************************************************************************)
(* Claims about the fragment loop (C28, C30 under SpecFrag, C29 under      *)
(* SpecRecv)                                                               *)
(***************************************************************************)
\* the last pass of the loop received a Data packet that was already stored
\* with the same content
UDuplicate ==
    /\ u.op = "roundtrip" /\ u.ev = "recv" /\ u.rx.type = PKT_DATA
    /\ u.rx.id \in DOMAIN u.before
    /\ u.before[u.rx.id] = u.rx.bytes

\* C28: a Data packet whose id is already stored with the same content
\* leaves the stored fragments and their count as they were and is answered
\* with one more Ack of its id (server loop and client loop).
C28_DuplicateIdempotent ==
    UDuplicate =>
        /\ u.received_packets = u.before
        /\ Cardinality(DOMAIN u.received_packets) = Cardinality(DOMAIN u.before)
        /\ u.sent = <<[dst |-> SERVER_PORT, pkt |-> AckOf(u.rx.id)]>>

C28_Witness ==
    UDuplicate /\ u.copy = "server" /\ u.rx.id = 0 /\ u.total = 2 /\ u.pc = "slice"

\* C29: the stored fragments of a receiver are never more than the
\* announced fragment count, and once the collection has ended they are
\* exactly that many (keys are unique: the store is a map).
C29_FragmentCountCap ==
    /\ \A w \in Workers :
          /\ Cardinality(DOMAIN wk[w].received_packets) <= wk[w].total_data_packets
          /\ WkCollected(wk[w]) =>
                Cardinality(DOMAIN wk[w].received_packets) = wk[w].total_data_packets
    /\ Cardinality(DOMAIN cl.received_packets) <= cl.result_total_packets
    /\ ClCollected(cl) =>
          Cardinality(DOMAIN cl.received_packets) = cl.result_total_packets

C29_Witness ==
    \E w \in Workers :
        /\ WkCollected(wk[w]) /\ wk[w].total_data_packets = PeerTotal
        /\ PeerTotal \in DOMAIN wk[w].received_packets

\* C30: a timeout in the fragment loop leaves the stored fragments as they
\* were, sends nothing and does not end the loop; whatever arrives, the only
\* packets the loop sends are Acks.
C30_ReceiverPassive ==
    u.op = "roundtrip" =>
        /\ u.ev = "timeout" =>
              /\ u.received_packets = u.before
              /\ u.sent = <<>>
              /\ u.pc = "slice"
        /\ \A j \in 1..Len(u.sent) : u.sent[j].pkt.type = PKT_ACK

C30_Witness ==
    /\ u.op = "roundtrip" /\ u.ev = "timeout" /\ u.copy = "server"
    /\ Cardinality(DOMAIN u.received_packets) = 1 /\ u.total = 2

(***************************************************************************)
(* Claims about sessions over a faulty or a perfect channel                *)
(***************************************************************************)
\* every Data fragment in flight to addr is already held
NothingNewFor(addr, received_packets) ==
    \A d \in net : (d.dst = addr /\ d.pkt.type = PKT_DATA)
                      => d.pkt.id \in DOMAIN received_packets

\* a worker in its fragment loop whose requester has returned and has left
\* no fragment in flight that the worker does not hold
WkStalled(w) ==
    /\ wk[w].pc = "rdata"
    /\ ~CollectionDone(wk[w].received_packets, wk[w].total_data_packets)
    /\ cl.pc = "done"
    /\ NothingNewFor(wk[w].sock, wk[w].received_packets)

\* a requester in its fragment loop whose worker has returned and has left
\* no fragment in flight that the requester does not hold
ClStalled ==
    /\ cl.pc = "rdata"
    /\ ~CollectionDone(cl.received_packets, cl.result_total_packets)
    /\ \A w \in Workers : wk[w].sock = cl.server_addr => wk[w].pc = "done"
    /\ NothingNewFor(CLIENT_ADDR, cl.received_packets)

\* C31: a receiver that holds fewer fragments than announced, and whose
\* sender has stopped, stays in its fragment loop: a timeout is always
\* possible there and changes nothing, and no step of the system ends the
\* loop, makes the worker fail or makes it send an Error.
C31_ReceiverStallsForever ==
    /\ \A w \in Workers : WkStalled(w) =>
          /\ wk[w].outcome = "running" /\ ErrorsFrom(wk[w]) = {}
          /\ ENABLED WkRecvDataTimeout(w)
          /\ ~ENABLED (WkRecvDataTimeout(w) /\ e2eVars' # e2eVars)
          /\ ~ENABLED (Next /\ ~(WkStalled(w) /\ ErrorsFrom(wk[w]) = {})')
    /\ ClStalled =>
          /\ cl.outcome = "running"
          /\ ENABLED ClRecvDataTimeout
          /\ ~ENABLED (ClRecvDataTimeout /\ e2eVars' # e2eVars)
          /\ ~ENABLED (Next /\ ~ClStalled')

C31_Witness ==
    /\ \E w \in Workers : WkStalled(w) /\ wk[w].received_packets # <<>>
    /\ cl.sendFailed

\* the workers behind the address the requester uploads to
PeerOf == {w \in Workers : wk[w].sock = cl.server_addr}

\* worker w has received the packet of log entry e (as its first packet, in
\* its fragment loop, or as the digest)
HasReceived(w, e) ==
    \/ wk[w].meta.type = e.type /\ wk[w].meta.id = e.id
    \/ e.type = PKT_DATA /\ e.id \in DOMAIN wk[w].received_packets
    \/ e.type = PKT_HASH /\ wk[w].received_hash # NoData

\* C32: every upload packet for which send_with_ack returned True has been
\* received by the worker the requester uploads to.
C32_AckImpliesDelivery ==
    \A k \in 1..cl.acked : \E w \in PeerOf : HasReceived(w, cl.txLog[k])

\* the Ack of a packet of a transfer: an Ack that is not the first datagram
\* of its socket (a session socket's first datagram is the Ack of the Command)
TransferAck(d) ==
    /\ d.pkt.type = PKT_ACK
    /\ \E e \in net : e.src = d.src /\ e.n < d.n

\* the channel has lost the Ack of a Metadata, Data or Hash packet
LostTransferAck == u.lost # <<>> /\ TransferAck(u.lost[1])

ConversionFailed == \E w \in Workers : wk[w].outcome = "erro_conversao"

\* the worker has sent Complete and the requester has saved the result
SessionComplete ==
    /\ cl.outcome = "True"
    /\ \E w \in Workers : wk[w].outcome = "complete"

\* C33: over a channel that delivers in order and has lost one Ack of a
\* transfer and nothing else, no endpoint gives the session up (unless the
\* conversion fails), and the session reaches Complete.
C33_LostAckRecovered ==
    /\ []((LostTransferAck /\ ~ConversionFailed) =>
             /\ cl.outcome \in {"running", "True"}
             /\ \A w \in Workers : wk[w].outcome \in {"running", "complete"})
    /\ (LostTransferAck ~> (SessionComplete \/ ConversionFailed))

\* the requester's command names a pair of the responder's supported set
SupportedCommand == <<cl.src, cl.dst>> \in SUPPORTED

\* the requester has saved what the collaborator returned to its worker
SavedOutput ==
    \E w \in Workers : /\ wk[w].outcome = "complete"
                       /\ cl.outcome = "True"
                       /\ cl.saved = wk[w].result_data
                       /\ wk[w].result_data = ConvertOutput(cl.file_data, wk[w].src, wk[w].dst)

\* C34: for a Command with a supported pair, over a channel that loses,
\* repeats and reorders nothing, with a conversion that succeeds and threads
\* that are scheduled fairly, the worker eventually sends Complete and the
\* requester saves a file whose content is the collaborator's output.
C34_ProgressOnPerfectChannel ==
    <>(SavedOutput \/ ~SupportedCommand \/ ConversionFailed \/ u.lost # <<>>)

C34_Witness ==
    /\ SavedOutput /\ SupportedCommand /\ u.lost = <<>>
    /\ Len(cl.file_data) = MaxLen /\ cl.saved # <<>>

(***************************************************************************)
(* Claims about the requester's result and the session counter             *)
(***************************************************************************)
\* C35: the requester returns True and writes the output only after it
\* received the result's Metadata, every announced fragment and a Hash whose
\* digest equals the digest of the reassembled, truncated content; when it
\* fails it has written nothing, and once it has returned it does nothing
\* more.
C35_SaveOnlyVerified ==
    /\ [](cl.outcome = "True" =>
             /\ cl.meta.type = PKT_METADATA
             /\ \A i \in 0..(cl.result_total_packets - 1) : i \in DOMAIN cl.received_packets
             /\ HashMatches(ClContent(cl), cl.expected_hash)
             /\ cl.saved = ClContent(cl))
    /\ [](cl.outcome \in {"False", "raised"} => cl.saved = <<>>)
    /\ [][cl.pc = "done" => cl' = cl]_vars

\* C36: the session counter never decreases and changes only in an
\* admission, by one, together with the start of one worker that gets the new
\* value as its identifier (its position in wk, and the port of its socket);
\* no step of a worker changes it, and no two workers have the same
\* identifier.
C36_SessionIdsUnique ==
    /\ [](/\ Len(wk) = client_counter
          /\ \A w \in Workers : wk[w].sock = EphemeralPort(w)
          /\ \A w1, w2 \in Workers : w1 # w2 => wk[w1].sock # wk[w2].sock)
    /\ [][/\ client_counter' >= client_counter
          /\ client_counter' # client_counter =>
                /\ client_counter' = client_counter + 1
                /\ Len(wk') = Len(wk) + 1
                /\ SubSeq(wk', 1, Len(wk)) = wk
                /\ wk'[client_counter'].pc = "init"
          /\ wk' # wk /\ Len(wk') = Len(wk) => client_counter' = client_counter]_vars

C36_Witness ==
    /\ client_counter = MaxWorkers
    /\ \E w1, w2 \in Workers : w1 < w2 /\ wk[w1].pc = "done" /\ wk[w2].pc # "done"

====
